---- MODULE Spec2Model ----
(***************************************************************************)
(* tw-stock-analyst: the incremental sync controller (sync.py), the        *)
(* fingerprint/upsert gateway and the filtered search of the vector store  *)
(* client (vectordb/qdrant_client.py), and the data provider as far as     *)
(* the controller sees it (data/stock_collector.py).                       *)
(* Further: retrieval and generation (rag/), the fundamentals formatter    *)
(* (data/fundamentals.py), the interactive session (cli.py) and the bulk   *)
(* loader (data_loader.py), each with a specification of its own.          *)
(*                                                                         *)
(* Strings are TLA+ strings; \o is Python's string concatenation.          *)
(* hashlib.sha256 and uuid.UUID are modelled as collision free: a point id *)
(* is determined by, and determines, the canonical key string it is the    *)
(* digest of.  Every collision the model shows is therefore a collision of *)
(* the key strings themselves.                                             *)
(***************************************************************************)
EXTENDS Integers, Sequences, FiniteSets, TLC

\* ------------------------------------------------------------------ bounds

\* Records the store may hold before the first run starts.
MaxPreload == 2
\* Trading days the price provider knows (a window is a contiguous range).
MaxDays == 2
\* Direct gateway calls in one behaviour of the gateway specification.
MaxCalls == 2
\* The largest top_k a retrieval is called with.
MaxTopK == 2
\* Trading days the price provider knows when the bulk loader is run.
MaxLoadDays == 8
\* The longest price history the bulk loader is run on while calls may fail.
MaxFaultyRows == 2

\* ------------------------------------------------------------- the domain

\* settings.data.stock_codes: the default universe, in configuration order.
stock_codes == <<"2330", "2317">>

\* The calendar, oldest first, in the ISO form the providers return.
Calendar == <<"2024-01-02", "2024-01-03", "2024-01-04", "2024-01-05">>

TradingDays == SubSeq(Calendar, 1, MaxDays)

\* The fields DataConfig declares; settings.data has no others.
DataConfigFields == {"default_days", "stocks"}

\* A price window: the rows of the most recent trading days, oldest first
\* (the request is start_date = now - days_back, end_date = now).
Windows == {SubSeq(TradingDays, a, MaxDays) : a \in 1..(MaxDays + 1)}

\* The statements the fundamentals provider holds for a stock, newest first.
provider_statements(stock_id) == <<"2023-12-31", "2023-09-30">>

Runs == {1, 2}

\* ------------------------------------------------------------------ state

VARIABLES
    store,              \* the points of the collection
    collection_exists,  \* whether the collection has been created
    provider_prices,    \* stock_id -> the rows the price provider returns
    faults,             \* whether external calls may fail in this behaviour
    run,                \* per invocation: the locals of main and of sync_stock_data
                        \* (sync.py) or load_stock_data (data_loader.py)
    trace,              \* per invocation: what it has done so far (history)
    calls,              \* direct gateway calls made so far
    writes,             \* triple -> the points written under it, oldest first (history)
    cli,                \* the interactive question-answering session (cli.main)
    call                \* the last direct call of a library operation and its result

vars == <<store, collection_exists, provider_prices, faults, run, trace, calls, writes,
          cli, call>>

\* ------------------------------------------------- fingerprint and gateway

\* unique_key = f"{stock_id}_{date}_{data_type}"
unique_key(stock_id, date, data_type) == stock_id \o "_" \o date \o "_" \o data_type

\* hash_hex = sha256(unique_key)[:32]; point_id = str(uuid.UUID(hex=hash_hex))
point_id(stock_id, date, data_type) == "uuid:" \o unique_key(stock_id, date, data_type)

\* The PointStruct insert_stock_data builds: id, vector and payload.
PointStruct(text, vector, stock_id, date, data_type, metadata) ==
    [id |-> point_id(stock_id, date, data_type),
     vector |-> vector,
     text |-> text,
     stock_id |-> stock_id,
     date |-> date,
     data_type |-> data_type,
     metadata |-> metadata]

\* Mutant: a plain insert that never replaces.
upsert_append(points, point) == points \cup {point}

\* Mutant: an insert under a store-generated id, ignoring the id supplied.
upsert_auto_id(points, point) ==
    points \cup {[point EXCEPT !.id = "auto:" \o ToString(Cardinality(points))]}

\* client.upsert: insert-or-replace by point id.
upsert(points, point) == {r \in points : r.id # point.id} \cup {point}

\* Mutant: the point is stored under a freshly drawn id (as uuid4 would give)
\* instead of the fingerprint.
insert_stock_data_fresh_id(points, text, vector, stock_id, date, data_type, metadata) ==
    points \cup {[PointStruct(text, vector, stock_id, date, data_type, metadata)
                    EXCEPT !.id = "uuid4:" \o ToString(Cardinality(points))]}

\* insert_stock_data: one upsert of the point built from the arguments.
insert_stock_data(points, text, vector, stock_id, date, data_type, metadata) ==
    upsert(points, PointStruct(text, vector, stock_id, date, data_type, metadata))

\* Python's None, as the value of an Optional[str] argument.
None == "<None>"

\* Mutant: a failed write is tried once more before giving up.
insert_stock_data_call_retries(points, upsert_ok, text, vector, stock_id, date, data_type, metadata) ==
    IF upsert_ok
    THEN [points |-> insert_stock_data(points, text, vector, stock_id, date, data_type, metadata),
          ops |-> <<"upsert">>, outcome |-> "returned",
          value |-> point_id(stock_id, date, data_type)]
    ELSE [points |-> insert_stock_data(points, text, vector, stock_id, date, data_type, metadata),
          ops |-> <<"upsert", "upsert">>, outcome |-> "returned",
          value |-> point_id(stock_id, date, data_type)]

\* One call of insert_stock_data as the caller and the store see it: the
\* client operations it performs, in order, the points afterwards, and its
\* outcome.  The key, the id and the point are computed locally; the one
\* client operation is client.upsert, outside any try: when it raises, the
\* exception leaves insert_stock_data and "return point_id" is not reached.
insert_stock_data_call(points, upsert_ok, text, vector, stock_id, date, data_type, metadata) ==
    IF upsert_ok
    THEN [points |-> insert_stock_data(points, text, vector, stock_id, date, data_type, metadata),
          ops |-> <<"upsert">>, outcome |-> "returned",
          value |-> point_id(stock_id, date, data_type)]
    ELSE [points |-> points, ops |-> <<"upsert">>, outcome |-> "raised", value |-> None]

\* "if x:" for an Optional[str]: None and the empty string are falsy.
truthy(x) == x \notin {None, ""}

\* Python values where their type matters: a str, a number, a mapping, or
\* None.
PyStr(v) == [t |-> "str", v |-> v]
PyNum(v) == [t |-> "num", n |-> v]
PyDict(v) == [t |-> "dict", v |-> v]
PyNone == [t |-> "none"]

\* Mutant: the data_type condition is never added to the filter.
search_without_data_type(points, stock_id, data_type, must) ==
    {r \in points :
        /\ (truthy(stock_id) => r.stock_id = stock_id)
        /\ \A c \in must : r[c.key] = c.value}

\* StockVectorDB.search, as far as the filter goes: the stored points that
\* satisfy every condition.  A falsy stock_id or data_type adds no condition.
search(points, stock_id, data_type, must) ==
    {r \in points :
        /\ (truthy(stock_id) => r.stock_id = stock_id)
        /\ (truthy(data_type) => r.data_type = data_type)
        /\ \A c \in must : r[c.key] = c.value}

\* The similarity scores the store can report, in thousandths.
ScoreValues == {250, 900}

Min(a, b) == IF a <= b THEN a ELSE b

\* self.client.search(query_vector, limit, query_filter): the store scores
\* the matching points against the query vector and answers with the limit
\* best, best first.  The scores are the store's; every scoring and every
\* order among equal scores is possible.
client_search(matching, limit) ==
    LET n == Min(limit, Cardinality(matching))
    IN  UNION {
            {[i \in 1..n |-> [point |-> g[i], score |-> sc[g[i]]]] :
                g \in {h \in [1..n -> matching] :
                        /\ \A i, j \in 1..n : i < j =>
                                /\ h[i] # h[j]
                                /\ sc[h[i]] >= sc[h[j]]
                        /\ \A q \in matching :
                                (\A i \in 1..n : h[i] # q) =>
                                    \A i \in 1..n : sc[h[i]] >= sc[q]}} :
            sc \in [matching -> ScoreValues]}

\* The list search returns: one dict per hit, in the order of the hits.
search_results(hits) ==
    [i \in 1..Len(hits) |->
        [id |-> hits[i].point.id,
         score |-> hits[i].score,
         text |-> hits[i].point.text,
         stock_id |-> hits[i].point.stock_id,
         stock_name |-> IF "stock_name" \in DOMAIN hits[i].point
                        THEN hits[i].point.stock_name ELSE "",
         date |-> hits[i].point.date,
         data_type |-> hits[i].point.data_type,
         metadata |-> hits[i].point.metadata]]

\* Mutant: the probe filters on the other data type.
check_data_exists_wrong_type(points, search_ok, stock_id, date, data_type) ==
    IF search_ok
    THEN search(points, stock_id,
                IF data_type = "technical" THEN "fundamental" ELSE "technical",
                {[key |-> "date", value |-> date]}) # {}
    ELSE FALSE

\* Mutant: "len(results) > 1", which a limit-1 search never satisfies.
check_data_exists_off_by_one(points, search_ok, stock_id, date, data_type) ==
    IF search_ok
    THEN Cardinality(search(points, stock_id, data_type,
                            {[key |-> "date", value |-> date]})) > 1
    ELSE FALSE

\* check_data_exists: a limit-1 search filtered to the triple; any exception
\* of the search (search_ok = FALSE) is swallowed and reported as "absent".
check_data_exists(points, search_ok, stock_id, date, data_type) ==
    IF search_ok
    THEN search(points, stock_id, data_type, {[key |-> "date", value |-> date]}) # {}
    ELSE FALSE

\* ------------------------------------------------------------- formatting

\* TechnicalIndicators.format_as_text: the document of one technical row.
format_as_text(stock_id, date) == "stock=" \o stock_id \o " date=" \o date

\* EmbeddingModel.encode(text).tolist()
encode(text) == "emb(" \o text \o ")"

\* sep.join(parts)
RECURSIVE join(_, _)
join(sep, parts) ==
    IF parts = <<>> THEN ""
    ELSE IF Len(parts) = 1 THEN parts[1]
    ELSE join(sep, SubSeq(parts, 1, Len(parts) - 1)) \o sep \o parts[Len(parts)]

\* dict.get(key, default)
get(mapping, key, default) == IF key \in DOMAIN mapping THEN mapping[key] ELSE default

\* "if x" for a number or None.
nonzero(x) == x.t = "num" /\ x.n # 0

\* f"{num / den:.2f}" for den > 0, rounded to the nearest hundredth.
fixed2(num, den) ==
    LET a == IF num < 0 THEN -num ELSE num
        h == 100 * (a \div den) + ((((200 * (a % den)) \div den) + 1) \div 2)
    IN  (IF num < 0 /\ h > 0 THEN "-" ELSE "")
        \o ToString(h \div 100) \o "."
        \o (IF h % 100 < 10 THEN "0" ELSE "") \o ToString(h % 100)

NumericFields == {"revenue", "operating_income", "net_income", "eps"}

\* Mutant: the guards test for non-zero only.
calculate_ratios_nonzero_guard(fundamentals, price) ==
    LET revenue == get(fundamentals, "revenue", PyNum(0))
        operating_income == get(fundamentals, "operating_income", PyNum(0))
        net_income == get(fundamentals, "net_income", PyNum(0))
        eps == get(fundamentals, "eps", PyNum(0))
        keys == {k \in {"operating_margin", "net_margin", "pe_ratio"} :
                    CASE k = "operating_margin" -> nonzero(revenue) /\ nonzero(operating_income)
                      [] k = "net_margin" -> nonzero(revenue) /\ nonzero(net_income)
                      [] k = "pe_ratio" -> nonzero(price) /\ nonzero(eps)}
    IN  [k \in keys |->
            CASE k = "operating_margin" ->
                    [dividend |-> operating_income.n, divisor |-> revenue.n, times |-> 100]
              [] k = "net_margin" ->
                    [dividend |-> net_income.n, divisor |-> revenue.n, times |-> 100]
              [] k = "pe_ratio" ->
                    [dividend |-> price.n, divisor |-> eps.n, times |-> 1]]

\* FundamentalFormatter.calculate_ratios: the ratios dict, each ratio with
\* the division that computes it ((dividend / divisor) * times).
calculate_ratios(fundamentals, price) ==
    LET revenue == get(fundamentals, "revenue", PyNum(0))
        operating_income == get(fundamentals, "operating_income", PyNum(0))
        net_income == get(fundamentals, "net_income", PyNum(0))
        eps == get(fundamentals, "eps", PyNum(0))
        revenue_ok == nonzero(revenue) /\ revenue.n > 0
        keys == {k \in {"operating_margin", "net_margin", "pe_ratio"} :
                    CASE k = "operating_margin" -> revenue_ok /\ nonzero(operating_income)
                      [] k = "net_margin" -> revenue_ok /\ nonzero(net_income)
                      [] k = "pe_ratio" -> nonzero(price) /\ nonzero(eps) /\ eps.n > 0}
    IN  [k \in keys |->
            CASE k = "operating_margin" ->
                    [dividend |-> operating_income.n, divisor |-> revenue.n, times |-> 100]
              [] k = "net_margin" ->
                    [dividend |-> net_income.n, divisor |-> revenue.n, times |-> 100]
              [] k = "pe_ratio" ->
                    [dividend |-> price.n, divisor |-> eps.n, times |-> 1]]

\* One line of the fundamentals document, and the document ("\n".join).
line(label, value) == [label |-> label, value |-> value]
render(l) == IF l.label = "" THEN l.value ELSE l.label \o ": " \o l.value

\* Mutant: "if price is not None and data['eps'] > 0".
pe_line_guard_price_given(price, eps) == price # PyNone /\ eps.n > 0

\* "if price and data['eps'] > 0"
pe_line_guard(price, eps) == nonzero(price) /\ eps.n > 0

\* FundamentalFormatter.format_as_text: absent fields default to 0 and
\* 'N/A'; a field that is present but None makes the arithmetic of the
\* first lines raise TypeError.  (Labels are ASCII renderings.)
fundamental_format_as_text(stock_id, stock_name, fundamentals, price) ==
    LET data == [k \in NumericFields |-> get(fundamentals, k, PyNum(0))]
        date == get(fundamentals, "date", PyStr("N/A"))
        lines == <<line("stock id", stock_id),
                   line("company", stock_name),
                   line("statement date", date.v),
                   line("", ""),
                   line("", "fundamentals:"),
                   line("revenue", fixed2(data.revenue.n, 1000000) \o " million"),
                   line("operating income",
                        fixed2(data.operating_income.n, 1000000) \o " million"),
                   line("net income", fixed2(data.net_income.n, 1000000) \o " million"),
                   line("EPS", fixed2(data.eps.n, 1) \o " NTD")>>
                 \o (IF data.revenue.n > 0 /\ nonzero(data.operating_income)
                     THEN <<line("operating margin",
                                 fixed2(data.operating_income.n * 100, data.revenue.n) \o "%")>>
                     ELSE <<>>)
                 \o (IF data.revenue.n > 0 /\ nonzero(data.net_income)
                     THEN <<line("net margin",
                                 fixed2(data.net_income.n * 100, data.revenue.n) \o "%")>>
                     ELSE <<>>)
                 \o (IF pe_line_guard(price, data.eps)
                     THEN <<line("P/E", fixed2(price.n, data.eps.n))>>
                     ELSE <<>>)
    IN  IF \E k \in NumericFields : data[k].t = "none"
        THEN [outcome |-> "raised", lines |-> <<>>, text |-> ""]
        ELSE [outcome |-> "returned", lines |-> lines,
              text |-> join("\n", [i \in 1..Len(lines) |-> render(lines[i])])]

\* The stored triples of a set of points.
Triple(r) == <<r.stock_id, r.date, r.data_type>>

Stored(points, stock_id, date, data_type) ==
    \E r \in points : Triple(r) = <<stock_id, date, data_type>>

DataTypes == {"technical", "fundamental"}

\* The triples the sync tool can meet with this universe and provider.
SyncTriples ==
    {<<stock_codes[k], TradingDays[d], "technical">> : k \in 1..Len(stock_codes), d \in 1..MaxDays}
    \cup {<<stock_codes[k], provider_statements(stock_codes[k])[1], "fundamental">> :
            k \in 1..Len(stock_codes)}

\* The point an earlier ingestion left under a triple.
Preloaded(t) == PointStruct("old " \o t[1] \o " " \o t[2], "old vector", t[1], t[2], t[3], "old")

IdleRun ==
    [pc |-> "idle", skip_fundamentals |-> FALSE, i |-> 0, df |-> <<>>, j |-> 0,
     total_inserted |-> 0, total_skipped |-> 0, outcome |-> "none", exit_code |-> -1]

IdleTrace ==
    [visited |-> <<>>, clean |-> TRUE, initialised |-> FALSE, startup_failed |-> FALSE,
     probes |-> 0, matches |-> 0, inserts |-> 0]

\* cli.main before it is started.
IdleCli ==
    [pc |-> "idle", entered |-> FALSE, probe_error |-> FALSE, last_input |-> "",
     event |-> "none", query |-> "", results |-> <<>>, context |-> "", exit_code |-> -1]

\* No library operation has been called directly.
NoCall == [op |-> "none"]

\* The last direct call was of op and returned (did not raise).
Returned(op) == call.op = op /\ call.outcome = "returned"

\* The history of the gateway: the points written, per triple.
Written(log, point) ==
    [t \in DOMAIN log \cup {Triple(point)} |->
        IF t = Triple(point)
        THEN (IF t \in DOMAIN log THEN Append(log[t], point) ELSE <<point>>)
        ELSE log[t]]

\* The store and the provider before the tool is first run.
Environment ==
    /\ collection_exists \in BOOLEAN
    /\ store \in {{Preloaded(t) : t \in T} :
                    T \in {U \in SUBSET SyncTriples :
                             /\ Cardinality(U) <= MaxPreload
                             /\ (U # {} => collection_exists)}}
    /\ provider_prices \in [{stock_codes[k] : k \in 1..Len(stock_codes)} -> Windows]
    /\ run = [r \in Runs |-> IdleRun]
    /\ trace = [r \in Runs |-> IdleTrace]
    /\ calls = 0
    /\ writes = [t \in {Triple(p) : p \in store} |-> <<Preloaded(t)>>]
    /\ cli = IdleCli
    /\ call = NoCall

\* One invocation, in an environment whose calls may fail.
Init == Environment /\ faults = TRUE

\* The tool run and run again, every external call answering.
InitRerun == Environment /\ faults = FALSE

\* --------------------------------------------------------- sync_stock_data

\* The stock and the row an invocation is working on.
stock_id(r) == stock_codes[run[r].i]
date(r) == run[r].df[run[r].j]

\* "for stock_id in stock_ids": the locals at the next iteration, or at the
\* summary and "return total_inserted, total_skipped" after the last one
\* (get_collection_info only logs).
next_stock(rec) ==
    IF rec.i < Len(stock_codes)
    THEN [rec EXCEPT !.pc = "fetch", !.i = @ + 1, !.df = <<>>, !.j = 0]
    ELSE [rec EXCEPT !.pc = "returned", !.outcome = "returned", !.df = <<>>, !.j = 0]

\* "for _, row in df.iterrows()": the locals at the next row, or at the
\* fundamentals step after the last one.
next_row(rec) ==
    IF rec.j < Len(rec.df)
    THEN [rec EXCEPT !.pc = "probe", !.j = @ + 1]
    ELSE [rec EXCEPT !.pc = "fund"]

\* History: the stocks whose loop body has been entered, in order; rec is
\* the locals after the step.
visit(tr, rec) ==
    IF rec.pc = "fetch"
    THEN [tr EXCEPT !.visited = Append(@, stock_codes[rec.i])]
    ELSE tr

\* main: parse the arguments and call sync_stock_data.
Invoke(r) ==
    /\ run[r].pc = "idle"
    /\ \E skip \in BOOLEAN :
        run' = [run EXCEPT ![r].pc = "init", ![r].skip_fundamentals = skip]
    /\ UNCHANGED <<store, collection_exists, provider_prices, faults, cli, call, trace, calls, writes>>

\* "Initialize components": the constructors, then create_collection, which
\* swallows its own exceptions and whose return value is not looked at.
Initialize(r) ==
    /\ run[r].pc = "init"
    /\ \/ \* a constructor raises: logged, return 0, 0
          /\ faults
          /\ run' = [run EXCEPT ![r].pc = "returned", ![r].outcome = "returned"]
          /\ trace' = [trace EXCEPT ![r].startup_failed = TRUE, ![r].clean = FALSE]
          /\ UNCHANGED collection_exists
       \/ \* create_collection fails inside: prints, returns False, ignored
          /\ faults
          /\ run' = [run EXCEPT ![r] = next_stock(@)]
          /\ trace' = [trace EXCEPT ![r] = visit([@ EXCEPT !.startup_failed = TRUE,
                                                          !.initialised = TRUE,
                                                          !.clean = FALSE], run'[r])]
          /\ UNCHANGED collection_exists
       \/ \* the collection exists or is created
          /\ run' = [run EXCEPT ![r] = next_stock(@)]
          /\ trace' = [trace EXCEPT ![r] = visit([@ EXCEPT !.initialised = TRUE], run'[r])]
          /\ collection_exists' = TRUE
    /\ UNCHANGED <<store, provider_prices, faults, cli, call, calls, writes>>

\* Mutant: the except clause gives up on the remaining stocks.
stock_failed_abort(rec) == [rec EXCEPT !.pc = "returned", !.outcome = "returned"]

\* What the except clause around one stock's body does: log and continue.
stock_failed(rec) == next_stock(rec)

\* Mutant: the "continue" after the warning is missing, so the body goes
\* on with no rows, down to the fundamentals step.
empty_window_goes_on(rec) == [rec EXCEPT !.pc = "fund"]

\* "if df.empty: logger.warning(...); continue"
empty_window(rec) == next_stock(rec)

\* collector.get_stock_price and tech_indicators.add_all_indicators; an
\* exception of either, or an empty frame, ends the stock.
FetchPrice(r) ==
    /\ run[r].pc = "fetch"
    /\ \/ /\ faults
          /\ run' = [run EXCEPT ![r] = stock_failed(@)]
          /\ trace' = [trace EXCEPT ![r] = visit([@ EXCEPT !.clean = FALSE], run'[r])]
       \/ /\ provider_prices[stock_id(r)] = <<>>
          /\ run' = [run EXCEPT ![r] = empty_window(@)]
          /\ trace' = [trace EXCEPT ![r] = visit(@, run'[r])]
       \/ /\ provider_prices[stock_id(r)] # <<>>
          /\ run' = [run EXCEPT ![r] = next_row([@ EXCEPT !.df = provider_prices[stock_id(r)]])]
          /\ UNCHANGED trace
    /\ UNCHANGED <<store, collection_exists, provider_prices, faults, cli, call, calls, writes>>

\* Mutant: a skipped row is counted as inserted as well.
row_skipped_counts_both(rec) ==
    next_row([rec EXCEPT !.total_skipped = @ + 1, !.total_inserted = @ + 1])

\* "total_skipped += 1; continue" when the probe reported a match.
row_skipped(rec) == next_row([rec EXCEPT !.total_skipped = @ + 1])

\* if check_data_exists(vector_db, stock_id, date, "technical"): skip
\* (history: the probes made and the matches they reported).
ProbeTechnical(r) ==
    /\ run[r].pc = "probe"
    /\ \E search_ok \in {ok \in BOOLEAN : (ok => collection_exists) /\ (~ok => faults)} :
        LET exists == check_data_exists(store, search_ok, stock_id(r), date(r), "technical")
        IN  /\ run' = [run EXCEPT ![r] =
                    IF exists THEN row_skipped(@) ELSE [@ EXCEPT !.pc = "write"]]
            /\ trace' = [trace EXCEPT ![r].clean = @ /\ search_ok,
                                      ![r].probes = @ + 1,
                                      ![r].matches = IF exists THEN @ + 1 ELSE @]
    /\ UNCHANGED <<store, collection_exists, provider_prices, faults, cli, call, calls, writes>>

\* Mutant: the exception is not caught at the row; it reaches the except
\* clause around the stock's body.
row_failed_escapes(rec) == stock_failed(rec)

\* "except Exception as e: logger.error(...); continue" of the row's try
\* block: the loop goes on with the next row, the counters as they were.
row_failed(rec) == next_row(rec)

\* Mutant: a written row is not counted.
row_inserted_uncounted(rec) == next_row(rec)

\* "total_inserted += 1" after insert_stock_data returned, and on to the
\* next row.
row_inserted(rec) == next_row([rec EXCEPT !.total_inserted = @ + 1])

\* The point the run writes for the row it is working on (for the history).
technical_point(r) ==
    PointStruct(format_as_text(stock_id(r), date(r)),
                encode(format_as_text(stock_id(r), date(r))),
                stock_id(r), date(r), "technical", date(r))

\* build the indicators, format_as_text, embedding_model.encode,
\* vector_db.insert_stock_data, total_inserted += 1; an exception of any of
\* them is logged and the loop continues with the next row (history: the
\* insert_stock_data calls that returned).
WriteTechnical(r) ==
    /\ run[r].pc = "write"
    /\ \/ \* formatting or the embedding model raises: nothing is written
          /\ faults
          /\ run' = [run EXCEPT ![r] = row_failed(@)]
          /\ trace' = [trace EXCEPT ![r] = visit([@ EXCEPT !.clean = FALSE], run'[r])]
          /\ UNCHANGED <<store, writes>>
       \/ \* client.upsert raises
          /\ faults
          /\ run' = [run EXCEPT ![r] = row_failed(@)]
          /\ trace' = [trace EXCEPT ![r] = visit([@ EXCEPT !.clean = FALSE], run'[r])]
          /\ UNCHANGED <<store, writes>>
       \/ /\ collection_exists
          /\ LET text == format_as_text(stock_id(r), date(r))
             IN  store' = insert_stock_data(store, text, encode(text), stock_id(r),
                                            date(r), "technical", date(r))
          /\ writes' = Written(writes, technical_point(r))
          /\ run' = [run EXCEPT ![r] = row_inserted(@)]
          /\ trace' = [trace EXCEPT ![r].inserts = @ + 1]
    /\ UNCHANGED <<collection_exists, provider_prices, faults, cli, call, calls>>

\* collector.get_fundamentals(stock_id): num_quarters defaults to
\* settings.data.num_quarters, read before the try block; with the field
\* missing the lookup raises.  Otherwise the result is a list of statements.
get_fundamentals(stock) ==
    IF "num_quarters" \in DataConfigFields
    THEN [raised |-> FALSE, value |-> provider_statements(stock)]
    ELSE [raised |-> TRUE, value |-> <<>>]

\* "Sync fundamental data": the try block around get_fundamentals.  The
\* result is a list, so fundamentals.get('date', '') raises AttributeError
\* whenever the list is non-empty; every path ends in the except clause or
\* falls through, before any probe, embedding or write.
fundamentals_step(stock) ==
    LET fundamentals == get_fundamentals(stock)
    IN  IF fundamentals.raised THEN "raised"
        ELSE IF fundamentals.value = <<>> THEN "empty"
        ELSE "attribute_error"

Fundamentals(r) ==
    /\ run[r].pc = "fund"
    /\ run' = [run EXCEPT ![r] = next_stock(@)]
    /\ (~run[r].skip_fundamentals
            => fundamentals_step(stock_id(r)) \in {"raised", "empty", "attribute_error"})
    /\ trace' = [trace EXCEPT ![r] = visit(@, run'[r])]
    /\ UNCHANGED <<store, collection_exists, provider_prices, faults, cli, call, calls, writes>>

\* main: sys.exit(0) after sync_stock_data returned, sys.exit(1) had it raised.
exit_status(outcome) == IF outcome = "raised" THEN 1 ELSE 0

MainExit(r) ==
    /\ run[r].pc = "returned"
    /\ run' = [run EXCEPT ![r] = [IdleRun EXCEPT !.pc = "exited",
                                                 !.outcome = run[r].outcome,
                                                 !.exit_code = exit_status(run[r].outcome)]]
    /\ UNCHANGED <<store, collection_exists, provider_prices, faults, cli, call, trace, calls, writes>>

Step(r) ==
    \/ Initialize(r)
    \/ FetchPrice(r)
    \/ ProbeTechnical(r)
    \/ WriteTechnical(r)
    \/ Fundamentals(r)
    \/ MainExit(r)

\* One writer at a time: the tool is run, and later run again.
Rerun == run[1].pc = "exited" /\ Invoke(2)

Next ==
    \/ Invoke(1)
    \/ Step(1)

Spec == Init /\ [][Next]_vars

\* The process of an invocation is terminated from outside (a signal, a
\* crash, the host going down) between two of its steps.  Nothing is rolled
\* back: what client.upsert has written stays in the store.
Kill(r) ==
    /\ run[r].pc \notin {"idle", "exited", "killed"}
    /\ run' = [run EXCEPT ![r].pc = "killed"]
    /\ UNCHANGED <<store, collection_exists, provider_prices, faults, cli, call, trace, calls, writes>>

\* The tool is run again after the first invocation was terminated.
Restart == run[1].pc = "killed" /\ Invoke(2)

NextRerun ==
    \/ Invoke(1)
    \/ Rerun
    \/ \E r \in Runs : Step(r)

SpecRerun == InitRerun /\ [][NextRerun]_vars

\* The first invocation runs to its end or is terminated at any point; if
\* terminated, the tool is run again, to its end.
NextKill ==
    \/ Invoke(1)
    \/ Step(1)
    \/ Kill(1)
    \/ Restart
    \/ Step(2)

SpecKill == InitRerun /\ [][NextKill]_vars

\* One invocation on a store that holds at most one earlier record, every
\* step of the invocation eventually taken: the loop is sequential and every
\* blocking call returns or raises.
InitFair == Init /\ Cardinality(store) <= 1

FairSpec == InitFair /\ [][Next]_vars /\ WF_vars(Step(1))

\* Two invocations at once (two processes on one store).
NextConcurrent ==
    \/ \E r \in Runs : Invoke(r)
    \/ \E r \in Runs : Step(r)

\* Two processes started on a fresh collection, every external call answering.
InitConcurrent == Environment /\ store = {} /\ faults = FALSE

SpecConcurrent == InitConcurrent /\ [][NextConcurrent]_vars

\* ------------------------------------------------- the gateway, called directly

\* The arguments of direct insert_stock_data calls: stock codes and dates
\* that may contain the separator, and two different documents.
GatewayStockIds == {"2330", "2330_TW"}
GatewayDates == {"2024-01-02", "TW_2024-01-02"}
GatewayContents ==
    {[text |-> "document A", vector |-> "vector A", metadata |-> "metadata A"],
     [text |-> "document B", vector |-> "vector B", metadata |-> "metadata B"]}

InitGateway ==
    /\ store = {}
    /\ collection_exists = TRUE
    /\ provider_prices = [s \in {stock_codes[k] : k \in 1..Len(stock_codes)} |-> <<>>]
    /\ faults = FALSE
    /\ run = [r \in Runs |-> IdleRun]
    /\ trace = [r \in Runs |-> IdleTrace]
    /\ calls = 0
    /\ writes = [t \in {} |-> <<>>]
    /\ cli = IdleCli
    /\ call = NoCall

\* vector_db.insert_stock_data(text, vector, stock_id, stock_name, date,
\* data_type, metadata) by any caller.
GatewayCall ==
    /\ calls < MaxCalls
    /\ \E c \in GatewayContents, s \in GatewayStockIds, d \in GatewayDates, t \in DataTypes :
        /\ store' = insert_stock_data(store, c.text, c.vector, s, d, t, c.metadata)
        /\ writes' = Written(writes, PointStruct(c.text, c.vector, s, d, t, c.metadata))
    /\ calls' = calls + 1
    /\ UNCHANGED <<collection_exists, provider_prices, faults, cli, call, run, trace>>

NextGateway == GatewayCall

\* The same caller against a store whose upsert may fail.
InitGatewayFaults ==
    /\ store = {}
    /\ collection_exists = TRUE
    /\ provider_prices = [s \in {stock_codes[k] : k \in 1..Len(stock_codes)} |-> <<>>]
    /\ faults = TRUE
    /\ run = [r \in Runs |-> IdleRun]
    /\ trace = [r \in Runs |-> IdleTrace]
    /\ calls = 0
    /\ writes = [t \in {} |-> <<>>]
    /\ cli = IdleCli
    /\ call = NoCall

GatewayCallFaulty ==
    /\ calls < MaxCalls
    /\ \E c \in GatewayContents, s \in GatewayStockIds, d \in GatewayDates, t \in DataTypes,
          upsert_ok \in {ok \in BOOLEAN : ~ok => faults} :
        LET out == insert_stock_data_call(store, upsert_ok, c.text, c.vector, s, d, t,
                                          c.metadata)
        IN  /\ store' = out.points
            /\ writes' = IF upsert_ok
                          THEN Written(writes, PointStruct(c.text, c.vector, s, d, t, c.metadata))
                          ELSE writes
            /\ call' = [op |-> "insert_stock_data", outcome |-> out.outcome,
                        args |-> [text |-> c.text, stock_id |-> s, date |-> d, data_type |-> t],
                        upsert_ok |-> upsert_ok, ops |-> out.ops, value |-> out.value]
    /\ calls' = calls + 1
    /\ UNCHANGED <<collection_exists, provider_prices, faults, run, trace, cli>>

NextGatewayFaults == GatewayCallFaulty

SpecGatewayFaults == InitGatewayFaults /\ [][NextGatewayFaults]_vars

SpecGateway == InitGateway /\ [][NextGateway]_vars

\* check_data_exists(vector_db, stock_id, date, data_type) by any caller,
\* between the gateway calls; the store answers the search.
ProbeCall ==
    /\ \E s \in GatewayStockIds, d \in GatewayDates, t \in DataTypes,
          search_ok \in {ok \in BOOLEAN : (ok => collection_exists) /\ (~ok => faults)} :
        call' = [op |-> "check_data_exists", outcome |-> "returned",
                 args |-> [stock_id |-> s, date |-> d, data_type |-> t],
                 search_ok |-> search_ok,
                 value |-> check_data_exists(store, search_ok, s, d, t)]
    /\ UNCHANGED <<store, collection_exists, provider_prices, faults, run, trace, calls,
                   writes, cli>>

NextProbe ==
    \/ GatewayCall
    \/ ProbeCall

\* Any sequence of insert_stock_data calls, probed at any point.
SpecProbe == InitGateway /\ [][NextProbe]_vars

\* ------------------------------------------------------- retrieval (rag)

\* The points of a loaded collection: two stocks, both data types, one
\* document with an empty text.
RetrievalPoints ==
    {PointStruct(format_as_text("2330", "2024-01-02"), encode(format_as_text("2330", "2024-01-02")),
                 "2330", "2024-01-02", "technical", "2024-01-02"),
     PointStruct("fundamentals of 2330", encode("fundamentals of 2330"),
                 "2330", "2023-12-31", "fundamental", "2023-12-31"),
     PointStruct(format_as_text("2317", "2024-01-02"), encode(format_as_text("2317", "2024-01-02")),
                 "2317", "2024-01-02", "technical", "2024-01-02"),
     PointStruct("", encode(""), "2317", "2023-12-31", "fundamental", "2023-12-31")}

\* The arguments of retrieve: Optional[str] filters, given or not.
Queries == {"2330 technical trend", "how is 2317 doing"}
FilterStockIds == {None, "", "2330", "2317"}
FilterDataTypes == {None, "", "technical", "fundamental"}

InitRetrieval ==
    /\ store \in SUBSET RetrievalPoints
    /\ collection_exists = TRUE
    /\ provider_prices = [s \in {stock_codes[k] : k \in 1..Len(stock_codes)} |-> <<>>]
    /\ faults = TRUE
    /\ run = [r \in Runs |-> IdleRun]
    /\ trace = [r \in Runs |-> IdleTrace]
    /\ calls = 0
    /\ writes = [t \in {} |-> <<>>]
    /\ cli = IdleCli
    /\ call = NoCall

\* Mutant: one more than top_k is asked of the store.
search_limit_off_by_one(top_k) == top_k + 1

\* The limit retrieve hands to search: limit=top_k.
search_limit(top_k) == top_k

\* StockRetriever.retrieve when nothing raises: the query is embedded, the
\* store searched with the filters and the limit, and the list search built
\* is returned as it is.  The set of the results the store's scoring allows.
\* (sid and dt are the stock_id and data_type arguments.)
retrieve(points, query, top_k, sid, dt) ==
    {[query_vector |-> encode(query), hits |-> hits, results |-> search_results(hits)] :
        hits \in client_search(search(points, sid, dt, {}), search_limit(top_k))}

\* retriever.retrieve(query, top_k, stock_id, data_type) by any caller; the
\* embedding model or the store may raise, and retrieve lets it through.
Retrieve ==
    /\ call = NoCall
    /\ \E query \in Queries, top_k \in 1..MaxTopK,
          sid \in FilterStockIds, dt \in FilterDataTypes :
        LET args == [query |-> query, top_k |-> top_k, stock_id |-> sid, data_type |-> dt]
        IN  \/ /\ faults
               /\ call' = [op |-> "retrieve", args |-> args, outcome |-> "raised",
                           query_vector |-> "", hits |-> <<>>, results |-> <<>>]
            \/ \E out \in retrieve(store, query, top_k, sid, dt) :
                    call' = [op |-> "retrieve", args |-> args, outcome |-> "returned",
                             query_vector |-> out.query_vector, hits |-> out.hits,
                             results |-> out.results]
    /\ UNCHANGED <<store, collection_exists, provider_prices, faults, run, trace, calls,
                   writes, cli>>

NextRetrieval == Retrieve

\* The no-data sentence of format_context (the source's text is Chinese;
\* this is its rendering in ASCII).
NoDataSentinel == "no related stock data found."

\* f"{score:.3f}" of a score given in thousandths, below 1.
format_score(score) == "0." \o ToString(score)

\* context_parts after the loop over enumerate(results, 1): a header, the
\* text and an empty line per result.
RECURSIVE context_parts(_, _)
context_parts(results, n) ==
    IF n = 0 THEN <<>>
    ELSE context_parts(results, n - 1)
         \o <<"[data " \o ToString(n) \o "] (relevance: "
                    \o format_score(results[n].score) \o ")",
              results[n].text,
              "">>

\* Mutant: the "if not results" guard is missing.
format_context_unguarded(results) == join("\n", context_parts(results, Len(results)))

\* StockRetriever.format_context
format_context(results) ==
    IF results = <<>>
    THEN NoDataSentinel
    ELSE join("\n", context_parts(results, Len(results)))

\* retriever.format_context(results), on the list a retrieval returned.
FormatContext ==
    /\ Returned("retrieve")
    /\ call' = [op |-> "format_context", outcome |-> "returned",
                args |-> [query |-> call.args.query, results |-> call.results],
                value |-> format_context(call.results)]
    /\ UNCHANGED <<store, collection_exists, provider_prices, faults, run, trace, calls,
                   writes, cli>>

SpecRetrieval == InitRetrieval /\ [][NextRetrieval]_vars

\* ------------------------------------------------------ generation (rag)

\* settings.ollama.model
model_name == "deepseek-r1:1.5b"

\* x[key]: the value, or the KeyError/TypeError Python raises.
subscript(x, key) ==
    IF x.t = "dict"
    THEN IF key \in DOMAIN x.v
         THEN [raised |-> FALSE, value |-> x.v[key]]
         ELSE [raised |-> TRUE, error |-> "'" \o key \o "'"]
    ELSE [raised |-> TRUE, error |-> "object is not subscriptable"]

\* What ollama.chat can do: raise (server down, model missing), or answer
\* with a well-formed or a malformed response.
ChatOutcomes ==
    {[kind |-> "raised", error |-> "connection refused"],
     [kind |-> "response",
      response |-> PyDict([message |-> PyDict([role |-> PyStr("assistant"),
                                               content |-> PyStr("the analysis")])])],
     [kind |-> "response", response |-> PyDict([error |-> PyStr("model not found")])],
     [kind |-> "response",
      response |-> PyDict([message |-> PyDict([role |-> PyStr("assistant")])])],
     [kind |-> "response",
      response |-> PyDict([message |-> PyDict([role |-> PyStr("assistant"),
                                               content |-> PyNone])])],
     [kind |-> "response", response |-> PyDict([message |-> PyNone])],
     [kind |-> "response", response |-> PyNone]}

\* The default system prompt and the prompt template (ASCII renderings).
default_system_prompt == "you are a professional Taiwan stock market analyst."

full_prompt(query, context) ==
    "reference:\n" \o context \o "\n\nquestion:\n" \o query
        \o "\n\nanswer on the basis of the reference."

\* The apology generate returns from its except clause.
apology(e, name) ==
    "error while generating the answer: " \o e
        \o "\n\nplease check that Ollama is running and that the "
        \o name \o " model has been downloaded."

\* StockAnalysisGenerator.generate: response['message']['content'], whatever
\* it is, or the apology when the call or a subscript raises.
generate(query, context, system_prompt, chat) ==
    LET prompt == IF system_prompt = None THEN default_system_prompt ELSE system_prompt
        messages == <<[role |-> "system", content |-> prompt],
                      [role |-> "user", content |-> full_prompt(query, context)]>>
        message == subscript(chat.response, "message")
        content == subscript(message.value, "content")
        returned(v) == [outcome |-> "returned", messages |-> messages, value |-> v]
    IN  IF chat.kind = "raised" THEN returned(PyStr(apology(chat.error, model_name)))
        ELSE IF message.raised THEN returned(PyStr(apology(message.error, model_name)))
        ELSE IF content.raised THEN returned(PyStr(apology(content.error, model_name)))
        ELSE returned(content.value)

\* The system_prompt argument: left out, or settings.system_prompt.
SystemPrompts == {None, "you are a careful analyst."}

\* generator.generate(query, context, system_prompt) on a formatted context.
Generate ==
    /\ Returned("format_context")
    /\ \E system_prompt \in SystemPrompts, chat \in ChatOutcomes :
        LET out == generate(call.args.query, call.value, system_prompt, chat)
        IN  call' = [op |-> "generate", outcome |-> out.outcome,
                     args |-> [query |-> call.args.query, context |-> call.value,
                               system_prompt |-> system_prompt],
                     chat |-> chat, messages |-> out.messages, value |-> out.value]
    /\ UNCHANGED <<store, collection_exists, provider_prices, faults, run, trace, calls,
                   writes, cli>>

\* Retrieval, formatting and generation in a row, as the pipeline runs them.
NextRag ==
    \/ Retrieve
    \/ FormatContext
    \/ Generate

SpecRag == InitRetrieval /\ [][NextRag]_vars

\* ------------------------------------------------ the fundamentals formatter

\* The values a statement can carry per field: absent, None, zero, a
\* negative and a positive amount.
FieldValues(k) ==
    CASE k = "revenue" -> {PyNone, PyNum(0), PyNum(-1000000), PyNum(2000000)}
      [] k = "operating_income" -> {PyNone, PyNum(0), PyNum(-500000), PyNum(500000)}
      [] k = "net_income" -> {PyNone, PyNum(0), PyNum(-250000), PyNum(250000)}
      [] k = "eps" -> {PyNone, PyNum(0), PyNum(-1), PyNum(2)}
      [] k = "date" -> {PyStr("2023-12-31")}

\* The fundamentals mappings: any of the fields may be missing.
FundamentalsMappings ==
    UNION {{m \in [K -> UNION {FieldValues(k) : k \in K}] : \A k \in K : m[k] \in FieldValues(k)} :
            K \in SUBSET (NumericFields \cup {"date"})}

\* price: Optional[float]
Prices == {PyNone, PyNum(0), PyNum(600)}

InitFormatter == InitGateway

\* formatter.calculate_ratios(fundamentals, price) by any caller.
CalculateRatios ==
    /\ call = NoCall
    /\ \E fundamentals \in FundamentalsMappings, price \in Prices :
        call' = [op |-> "calculate_ratios", outcome |-> "returned",
                 args |-> [fundamentals |-> fundamentals, price |-> price],
                 value |-> calculate_ratios(fundamentals, price)]
    /\ UNCHANGED <<store, collection_exists, provider_prices, faults, run, trace, calls,
                   writes, cli>>

\* formatter.format_as_text(stock_id, stock_name, fundamentals, price) by
\* any caller.
FormatFundamental ==
    /\ call = NoCall
    /\ \E fundamentals \in FundamentalsMappings, price \in Prices :
        LET out == fundamental_format_as_text("2330", "TSMC", fundamentals, price)
        IN  call' = [op |-> "format_as_text", outcome |-> out.outcome,
                     args |-> [fundamentals |-> fundamentals, price |-> price],
                     lines |-> out.lines, value |-> out.text]
    /\ UNCHANGED <<store, collection_exists, provider_prices, faults, run, trace, calls,
                   writes, cli>>

NextFormatter ==
    \/ CalculateRatios
    \/ FormatFundamental

SpecFormatter == InitFormatter /\ [][NextFormatter]_vars

\* ------------------------------------------------ the interactive session

\* settings.rag.top_k
rag_top_k == 5

\* settings.system_prompt (an ASCII rendering)
settings_system_prompt == "you are a professional Taiwan stock market analyst."

\* What the operator can type at the prompt.
Inputs == {"quit", "exit", "q", "QUIT", "Exit", "Q", "", "  ",
           "2330 technical trend", "how is 2317 doing"}

\* str.lower and str.strip, on the inputs above.
lower(text) ==
    CASE text = "QUIT" -> "quit"
      [] text = "Exit" -> "exit"
      [] text = "Q" -> "q"
      [] OTHER -> text

strip(text) == IF text = "  " THEN "" ELSE text

\* The session of a collection that may not exist yet.
InitCli ==
    /\ collection_exists \in BOOLEAN
    /\ store \in {S \in SUBSET RetrievalPoints : S # {} => collection_exists}
    /\ provider_prices = [s \in {stock_codes[k] : k \in 1..Len(stock_codes)} |-> <<>>]
    /\ faults = TRUE
    /\ run = [r \in Runs |-> IdleRun]
    /\ trace = [r \in Runs |-> IdleTrace]
    /\ calls = 0
    /\ writes = [t \in {} |-> <<>>]
    /\ cli = IdleCli
    /\ call = NoCall

\* main is started: the banner is printed.
CliStart ==
    /\ cli.pc = "idle"
    /\ cli' = [cli EXCEPT !.pc = "init"]
    /\ UNCHANGED <<store, collection_exists, provider_prices, faults, run, trace, calls,
                   writes, call>>

\* main returns (exit status 0), or leaves through sys.exit(1).
cli_return(c, event) == [c EXCEPT !.pc = "exited", !.event = event, !.exit_code = 0]
cli_exit_1(c, event) == [c EXCEPT !.pc = "exited", !.event = event, !.exit_code = 1]

\* "Initialize components": StockVectorDB(), get_collection_info (which
\* answers {"error": ...} when the store or the collection cannot be
\* reached), EmbeddingModel, the generator and check_model_available.
CliInitialize ==
    /\ cli.pc = "init"
    /\ \/ \* a constructor raises: the outer except, sys.exit(1)
          /\ faults
          /\ cli' = cli_exit_1(cli, "initialisation raised")
       \/ \* "error" in info: the message, return
          /\ faults \/ ~collection_exists
          /\ cli' = cli_return([cli EXCEPT !.probe_error = TRUE], "probe error")
       \/ \* the model is not available and the operator answers "n"
          /\ collection_exists
          /\ cli' = cli_return(cli, "model missing")
       \/ \* everything is ready: the loop is entered
          /\ collection_exists
          /\ cli' = [cli EXCEPT !.pc = "prompt", !.entered = TRUE, !.event = "ready"]
    /\ UNCHANGED <<store, collection_exists, provider_prices, faults, run, trace, calls,
                   writes, call>>

\* "continue": the next iteration of "while True".
next_question(c, event) ==
    [c EXCEPT !.pc = "prompt", !.event = event, !.query = "", !.results = <<>>,
              !.context = ""]

\* Mutant: the except clause of the loop leaves the loop.
query_failed_breaks(c, event) == cli_return(c, event)

\* "except Exception as e": the error is printed, continue.
query_failed(c, event) == next_question(c, event)

\* Prompt.ask and the tests on the input.
CliPrompt ==
    /\ cli.pc = "prompt"
    /\ \/ \* Prompt.ask raises (end of input): except Exception, continue
          /\ faults
          /\ cli' = query_failed(cli, "prompt raised")
       \/ \E input \in Inputs :
            cli' = IF lower(input) \in {"quit", "exit", "q"}
                   THEN cli_return([cli EXCEPT !.last_input = input], "quit")
                   ELSE IF strip(input) = ""
                   THEN next_question([cli EXCEPT !.last_input = input], "blank")
                   ELSE [cli EXCEPT !.pc = "retrieve", !.last_input = input,
                                    !.query = input, !.event = "asked"]
    /\ UNCHANGED <<store, collection_exists, provider_prices, faults, run, trace, calls,
                   writes, call>>

\* retriever.retrieve(query, top_k=settings.rag.top_k), the test on the
\* results and retriever.format_context(results).
CliRetrieve ==
    /\ cli.pc = "retrieve"
    /\ \/ /\ faults
          /\ cli' = query_failed(cli, "retrieve raised")
       \/ \E out \in retrieve(store, cli.query, rag_top_k, None, None) :
            cli' = IF out.results = <<>>
                   THEN next_question(cli, "no results")
                   ELSE [cli EXCEPT !.pc = "generate", !.event = "retrieved",
                                    !.results = out.results,
                                    !.context = format_context(out.results)]
    /\ UNCHANGED <<store, collection_exists, provider_prices, faults, run, trace, calls,
                   writes, call>>

\* generator.generate, Markdown(response) (which raises on anything but a
\* str) and the list of the sources.
CliGenerate ==
    /\ cli.pc = "generate"
    /\ \E chat \in ChatOutcomes :
        LET out == generate(cli.query, cli.context, settings_system_prompt, chat)
        IN  cli' = IF out.value.t = "str"
                   THEN next_question(cli, "answered")
                   ELSE query_failed(cli, "display raised")
    /\ UNCHANGED <<store, collection_exists, provider_prices, faults, run, trace, calls,
                   writes, call>>

\* KeyboardInterrupt anywhere in the body of the loop: goodbye, break.
CliInterrupt ==
    /\ cli.pc \in {"prompt", "retrieve", "generate"}
    /\ cli' = cli_return(cli, "interrupt")
    /\ UNCHANGED <<store, collection_exists, provider_prices, faults, run, trace, calls,
                   writes, call>>

NextCli ==
    \/ CliStart
    \/ CliInitialize
    \/ CliPrompt
    \/ CliRetrieve
    \/ CliGenerate
    \/ CliInterrupt

SpecCli == InitCli /\ [][NextCli]_vars

\* --------------------------------------------------------- the bulk loader

\* recent_df = df.tail(7)
tail_rows == 7

\* df.tail(n)
tail(rows, n) ==
    IF Len(rows) <= n THEN rows ELSE SubSeq(rows, Len(rows) - n + 1, Len(rows))

\* The trading days the provider knows at the time of a bulk load, oldest
\* first.
LoaderDay(n) == "2024-02-" \o (IF n < 10 THEN "0" ELSE "") \o ToString(n)
LoaderDays == [n \in 1..MaxLoadDays |-> LoaderDay(n)]

\* What get_stock_price(stock_id, start_date, end_date) returns for the
\* loader's window: the last days the provider knows, from none to all.
LoaderWindows == {tail(LoaderDays, n) : n \in 0..MaxLoadDays}

\* The store before the first load: empty, or with earlier records of the
\* first stock, one of a day the loader selects and one of a day it drops.
LoaderPreloads ==
    SUBSET {<<stock_codes[1], LoaderDay(1), "technical">>,
            <<stock_codes[1], LoaderDay(MaxLoadDays), "technical">>}

\* The loader run and run again over the same provider data.  Either no
\* external call fails and the histories are of any length, or calls may
\* fail, in either run, and the histories are short.
InitLoader ==
    /\ collection_exists \in BOOLEAN
    /\ faults \in BOOLEAN
    /\ store \in {{Preloaded(t) : t \in T} :
                    T \in {U \in LoaderPreloads : U # {} => collection_exists}}
    /\ provider_prices \in
            {f \in [{stock_codes[k] : k \in 1..Len(stock_codes)} -> LoaderWindows] :
                \A x \in DOMAIN f :
                    \/ Len(f[x]) <= (IF faults THEN MaxFaultyRows ELSE 1)
                    \/ ~faults /\ x = stock_codes[1] /\ Len(f[x]) >= tail_rows}
    /\ run = [r \in Runs |-> IdleRun]
    /\ trace = [r \in Runs |-> IdleTrace]
    /\ calls = 0
    /\ writes = [t \in {Triple(p) : p \in store} |-> <<Preloaded(t)>>]
    /\ cli = IdleCli
    /\ call = NoCall

\* "for stock_id in track(stock_ids, ...)": the locals at the next
\* iteration, or after the summary (get_collection_info answers an error
\* dict rather than raise), load_stock_data and main having returned.
load_next_stock(rec) ==
    IF rec.i < Len(stock_codes)
    THEN [rec EXCEPT !.pc = "load_fetch", !.i = @ + 1, !.df = <<>>, !.j = 0]
    ELSE [rec EXCEPT !.pc = "loaded", !.outcome = "returned", !.exit_code = 0,
                     !.df = <<>>, !.j = 0]

\* "for _, row in recent_df.iterrows()": the next row, or the fundamentals
\* step after the last one.
load_next_row(rec) ==
    IF rec.j < Len(rec.df)
    THEN [rec EXCEPT !.pc = "load_write", !.j = @ + 1]
    ELSE [rec EXCEPT !.pc = "load_fund"]

\* data_loader.main: parse the arguments and call load_stock_data.
LoadInvoke(r) ==
    /\ run[r].pc = "idle"
    /\ \E skip \in BOOLEAN :
        run' = [run EXCEPT ![r].pc = "load_init", ![r].skip_fundamentals = skip]
    /\ UNCHANGED <<store, collection_exists, provider_prices, faults, cli, call, trace, calls,
                   writes>>

\* "Initialize components", outside any try block: an exception of a
\* constructor ends the process; create_collection swallows its own.
LoadInitialize(r) ==
    /\ run[r].pc = "load_init"
    /\ \/ \* a constructor raises: the traceback, exit status 1
          /\ faults
          /\ run' = [run EXCEPT ![r].pc = "load_raised", ![r].outcome = "raised",
                                ![r].exit_code = 1]
          /\ trace' = [trace EXCEPT ![r].startup_failed = TRUE, ![r].clean = FALSE]
          /\ UNCHANGED collection_exists
       \/ \* create_collection fails inside: prints, returns False, ignored
          /\ faults
          /\ run' = [run EXCEPT ![r] = load_next_stock(@)]
          /\ trace' = [trace EXCEPT ![r].startup_failed = TRUE, ![r].initialised = TRUE,
                                    ![r].clean = FALSE]
          /\ UNCHANGED collection_exists
       \/ \* the collection exists or is created
          /\ run' = [run EXCEPT ![r] = load_next_stock(@)]
          /\ trace' = [trace EXCEPT ![r].initialised = TRUE]
          /\ collection_exists' = TRUE
    /\ UNCHANGED <<store, provider_prices, faults, cli, call, calls, writes>>

\* get_stock_price, "if df.empty: continue", add_all_indicators and
\* df.tail(7); an exception ends the stock (the outer except, continue).
LoadFetch(r) ==
    /\ run[r].pc = "load_fetch"
    /\ \/ /\ faults
          /\ run' = [run EXCEPT ![r] = load_next_stock(@)]
          /\ trace' = [trace EXCEPT ![r].clean = FALSE]
       \/ /\ provider_prices[stock_id(r)] = <<>>
          /\ run' = [run EXCEPT ![r] = load_next_stock(@)]
          /\ UNCHANGED trace
       \/ /\ provider_prices[stock_id(r)] # <<>>
          /\ run' = [run EXCEPT ![r] =
                        load_next_row([@ EXCEPT !.df = tail(provider_prices[stock_id(r)],
                                                            tail_rows)])]
          /\ UNCHANGED trace
    /\ UNCHANGED <<store, collection_exists, provider_prices, faults, cli, call, calls, writes>>

\* One row of recent_df: build the indicators, format_as_text, encode,
\* insert_stock_data, total_inserted += 1, with no probe before; an
\* exception of any of them is printed and the loop continues.
LoadWrite(r) ==
    /\ run[r].pc = "load_write"
    /\ \/ \* formatting, the embedding model or client.upsert raises
          /\ faults
          /\ run' = [run EXCEPT ![r] = load_next_row(@)]
          /\ trace' = [trace EXCEPT ![r].clean = FALSE]
          /\ UNCHANGED <<store, writes>>
       \/ /\ collection_exists
          /\ LET text == format_as_text(stock_id(r), date(r))
             IN  store' = insert_stock_data(store, text, encode(text), stock_id(r),
                                            date(r), "technical", date(r))
          /\ writes' = Written(writes, technical_point(r))
          /\ run' = [run EXCEPT ![r] = load_next_row([@ EXCEPT !.total_inserted = @ + 1])]
          /\ trace' = [trace EXCEPT ![r].inserts = @ + 1]
    /\ UNCHANGED <<collection_exists, provider_prices, faults, cli, call, calls>>

\* "Get and insert fundamental data": get_fundamentals raises on the
\* missing settings.data.num_quarters; were it to return its list,
\* formatter.format_as_text would raise on fundamentals.get.  Either way
\* the except clause prints and nothing is written.
load_fundamentals_step(stock) ==
    LET fundamentals == get_fundamentals(stock)
    IN  IF fundamentals.raised THEN "raised"
        ELSE IF fundamentals.value = <<>> THEN "empty"
        ELSE "attribute_error"

LoadFundamentals(r) ==
    /\ run[r].pc = "load_fund"
    /\ run' = [run EXCEPT ![r] = load_next_stock(@)]
    /\ (~run[r].skip_fundamentals
            => load_fundamentals_step(stock_id(r)) \in {"raised", "empty", "attribute_error"})
    /\ UNCHANGED <<store, collection_exists, provider_prices, faults, cli, call, trace, calls,
                   writes>>

LoadStep(r) ==
    \/ LoadInitialize(r)
    \/ LoadFetch(r)
    \/ LoadWrite(r)
    \/ LoadFundamentals(r)

\* The first run of the loader has ended.
FirstLoadDone == run[1].pc \in {"loaded", "load_raised"}

\* The loader is run a second time once the first run has ended.
LoadAgain == FirstLoadDone /\ LoadInvoke(2)

NextLoader ==
    \/ LoadInvoke(1)
    \/ LoadAgain
    \/ \E r \in Runs : LoadStep(r)

SpecLoader == InitLoader /\ [][NextLoader]_vars

\* ------------------------------------------------------------------ claims

\* Each triple has at most one point in the store.
OnePointPerTriple == \A p, q \in store : Triple(p) = Triple(q) => p = q

\* C1 (as claimed): when a row's triple is stored at the time it is probed,
\* the run skips the row: it goes on to the next row without embedding or
\* writing, skipped grows by exactly one and inserted stays.
C1_SkipOnExists ==
    [][\A r \in Runs :
        (/\ run[r].pc = "probe"
         /\ run'[r] # run[r]
         /\ Stored(store, stock_id(r), date(r), "technical"))
        => (/\ run'[r].pc # "write"
            /\ run'[r].total_skipped = run[r].total_skipped + 1
            /\ run'[r].total_inserted = run[r].total_inserted
            /\ store' = store)]_vars

\* C2 (as claimed): no write of a run succeeds for a triple the store holds
\* at the moment of the write, whatever calls fail.
C2_NoWriteOfStoredTriple ==
    [][\A r \in Runs :
        (/\ run[r].pc = "write"
         /\ run'[r].total_inserted = run[r].total_inserted + 1)
        => ~Stored(store, stock_id(r), date(r), "technical")]_vars

\* C3: with the provider returning the same rows and no call failing, the
\* second run never reaches the embed/write step, keeps inserted at 0, and
\* no step taken after the first run has exited changes the store.
C3_IdempotentRerun ==
    /\ [](run[2].pc # "write" /\ run[2].total_inserted = 0)
    /\ [][run[1].pc = "exited" => store' = store]_vars

C3_Witness ==
    /\ run[2].pc = "returned"
    /\ run[2].total_skipped >= 2
    /\ \E p \in store : p.metadata # "old"

\* C4: the store holds at most one point per triple, and the point stored
\* under a triple is the one most recently written to that triple.
C4_SlotHoldsLatestWrite ==
    /\ OnePointPerTriple
    /\ \A p \in store :
        /\ Triple(p) \in DOMAIN writes
        /\ p = writes[Triple(p)][Len(writes[Triple(p)])]

C4_Witness ==
    \E t \in DOMAIN writes :
        /\ Len(writes[t]) = 2
        /\ writes[t][1].text # writes[t][2].text
        /\ writes[t][2] \in store
        /\ writes[t][1] \notin store

\* C5 (as claimed): two different triples written through the gateway get
\* different key strings, hence different point ids.
C5_DistinctTriplesDistinctKeys ==
    \A t1, t2 \in DOMAIN writes :
        t1 # t2 =>
            /\ unique_key(t1[1], t1[2], t1[3]) # unique_key(t2[1], t2[2], t2[3])
            /\ writes[t1][1].id # writes[t2][1].id

\* C6: once the components are initialised the run visits the stocks in
\* list order, each once, and returns having visited them all, whatever
\* fails on the way.
C6_RunsToCompletion ==
    /\ [](trace[1].visited = SubSeq(stock_codes, 1, Len(trace[1].visited)))
    /\ []((trace[1].initialised /\ run[1].pc \in {"returned", "exited"})
            => trace[1].visited = stock_codes)
    /\ ((trace[1].initialised /\ run[1].pc \notin {"returned", "exited"})
            ~> run[1].pc = "returned")

C6_Witness ==
    /\ run[1].pc = "returned"
    /\ trace[1].initialised
    /\ ~trace[1].clean
    /\ trace[1].visited = stock_codes
    /\ run[1].total_inserted = 0
    /\ run[1].total_skipped = 0
    /\ \A k \in 1..Len(stock_codes) : provider_prices[stock_codes[k]] # <<>>

\* C7 (as claimed): a run whose start-up failed (a constructor raised, or
\* the collection could not be created or verified) has processed no stock
\* and exits with a non-zero status.
C7_StartupFailureExitsNonZero ==
    \A r \in Runs :
        (run[r].pc = "exited" /\ trace[r].startup_failed)
        => (run[r].exit_code # 0 /\ trace[r].visited = <<>>)

\* C8 (as claimed): with fundamentals enabled and no call failing, when the
\* provider has a latest statement whose triple is absent from the store,
\* the fundamentals step writes one point under that triple and inserted
\* grows by one.
C8_FundamentalsInsertIfAbsent ==
    [][\A r \in Runs :
        (/\ run[r].pc = "fund"
         /\ run'[r].pc # "fund"
         /\ ~run[r].skip_fundamentals
         /\ trace[r].clean
         /\ provider_statements(stock_id(r)) # <<>>
         /\ ~Stored(store, stock_id(r), provider_statements(stock_id(r))[1], "fundamental"))
        => (/\ Stored(store', stock_id(r), provider_statements(stock_id(r))[1], "fundamental")
            /\ Cardinality(store') = Cardinality(store) + 1
            /\ run'[r].total_inserted = run[r].total_inserted + 1)]_vars

\* The store holds the technical point of every row the provider returns
\* and, for every stock with rows, the point of its latest statement.
AllHeld ==
    \A k \in 1..Len(stock_codes) :
        LET s == stock_codes[k]
        IN  provider_prices[s] # <<>> =>
                /\ \A n \in 1..Len(provider_prices[s]) :
                        Stored(store, s, provider_prices[s][n], "technical")
                /\ Stored(store, s, provider_statements(s)[1], "fundamental")

\* Rows + 1 summed over the first k stocks that have rows.
RECURSIVE rows_plus_one(_)
rows_plus_one(k) ==
    IF k = 0 THEN 0
    ELSE rows_plus_one(k - 1)
         + (IF provider_prices[stock_codes[k]] = <<>> THEN 0
            ELSE Len(provider_prices[stock_codes[k]]) + 1)

\* C9 (as claimed): a run with fundamentals enabled, no call failing, on a
\* store that held every row's technical point and every latest statement
\* from the start, returns inserted = 0 and skipped = rows + 1 per stock.
C9_EndToEndSkipCount ==
    \A r \in Runs :
        (/\ run[r].pc = "returned"
         /\ trace[r].initialised
         /\ trace[r].clean
         /\ ~run[r].skip_fundamentals
         /\ AllHeld
         /\ \A p \in store : p.metadata = "old")
        => (/\ run[r].total_inserted = 0
            /\ run[r].total_skipped = rows_plus_one(Len(stock_codes)))

\* C10: while two runs interleave the store never holds two points of one
\* triple, and once both have exited it holds exactly one point for every
\* triple written.
C10_ConcurrentRunsHarmless ==
    /\ OnePointPerTriple
    /\ (\A r \in Runs : run[r].pc = "exited")
        => \A t \in DOMAIN writes : Cardinality({p \in store : Triple(p) = t}) = 1

C10_Witness ==
    /\ \A r \in Runs : run[r].pc = "exited"
    /\ \E t \in DOMAIN writes : Len(writes[t]) = 2
    /\ \E t \in DOMAIN writes : Len(writes[t]) = 1

\* The technical triples of the rows the provider returns.
ProviderRows ==
    UNION {{<<stock_codes[k], provider_prices[stock_codes[k]][n], "technical">> :
                n \in 1..Len(provider_prices[stock_codes[k]])} :
            k \in 1..Len(stock_codes)}

\* The triples the store held before the first run.
PreloadedTriples == {t \in DOMAIN writes : writes[t][1].metadata = "old"}

\* The triples an uninterrupted run ends with: what was there, and the rows.
UninterruptedTriples == PreloadedTriples \cup ProviderRows

\* C11: a terminated run's records stay in the store (no step ever removes
\* or replaces a stored point); a complete run after it ends with the same
\* triples as one uninterrupted run, has written no triple a second time,
\* and counts the rows the terminated run wrote as skipped: its skipped is
\* the rows stored beforehand plus those the terminated run inserted, its
\* inserted is the rest.
C11_PartialRunSafety ==
    /\ [][store \subseteq store']_vars
    /\ [](run[1].pc = "returned" => {Triple(p) : p \in store} = UninterruptedTriples)
    /\ []((run[1].pc = "killed" /\ run[2].pc = "returned") =>
            /\ {Triple(p) : p \in store} = UninterruptedTriples
            /\ \A t \in DOMAIN writes : Len(writes[t]) = 1
            /\ run[2].total_skipped =
                    Cardinality(PreloadedTriples \cap ProviderRows) + run[1].total_inserted
            /\ run[2].total_inserted =
                    Cardinality(ProviderRows \ PreloadedTriples) - run[1].total_inserted)

C11_Witness ==
    /\ run[1].pc = "killed"
    /\ run[1].total_inserted >= 1
    /\ run[2].pc = "returned"
    /\ run[2].total_inserted >= 1
    /\ run[2].total_skipped >= 2
    /\ PreloadedTriples \cap ProviderRows # {}

\* C12 (as claimed): whenever retrieve is called with a stock_id argument
\* (anything but None), every result has that stock_id; likewise data_type.
C12_FilteredRetrievalAnyArgument ==
    Returned("retrieve") =>
        \A i \in 1..Len(call.results) :
            /\ (call.args.stock_id # None => call.results[i].stock_id = call.args.stock_id)
            /\ (call.args.data_type # None => call.results[i].data_type = call.args.data_type)

\* C12 (amended): whenever retrieve is called with a non-empty stock_id,
\* every result has that stock_id; likewise for a non-empty data_type; with
\* both, every result satisfies both.  None and "" add no condition.
C12_FilteredRetrieval ==
    Returned("retrieve") =>
        \A i \in 1..Len(call.results) :
            /\ (truthy(call.args.stock_id) => call.results[i].stock_id = call.args.stock_id)
            /\ (truthy(call.args.data_type) => call.results[i].data_type = call.args.data_type)

C12_Witness ==
    /\ Returned("retrieve")
    /\ call.args.stock_id = "2330"
    /\ call.args.data_type = "technical"
    /\ Len(call.results) = 1
    /\ Cardinality(store) = 4

\* C13: retrieve returns at most top_k results, best score first, and they
\* are the store's hits: as many, the same points with the same scores, in
\* the same order.
C13_BoundedRankedRetrieval ==
    Returned("retrieve") =>
        /\ Len(call.results) <= call.args.top_k
        /\ Len(call.results) = Len(call.hits)
        /\ \A i \in 1..Len(call.results) :
                /\ call.results[i].id = call.hits[i].point.id
                /\ call.results[i].score = call.hits[i].score
                /\ call.results[i].text = call.hits[i].point.text
        /\ \A i, j \in 1..Len(call.results) :
                i < j => call.results[i].score >= call.results[j].score

C13_Witness ==
    /\ Returned("retrieve")
    /\ Cardinality(store) > call.args.top_k
    /\ ~truthy(call.args.stock_id)
    /\ ~truthy(call.args.data_type)
    /\ Len(call.results) = call.args.top_k
    /\ call.args.top_k >= 2
    /\ call.results[1].score > call.results[2].score

\* C14: format_context returns the no-data sentence exactly when the list
\* of results is empty, and never the empty string.
C14_EmptyContextSentinel ==
    call.op = "format_context" =>
        /\ (call.value = NoDataSentinel <=> call.args.results = <<>>)
        /\ call.value # ""

C14_Witness ==
    /\ call.op = "format_context"
    /\ call.args.results = <<>>
    /\ call.value = NoDataSentinel
    /\ store # {}

\* The response has the shape generate reads: a mapping whose message is a
\* mapping whose content is a str.
well_formed(chat) ==
    /\ chat.kind = "response"
    /\ chat.response.t = "dict"
    /\ "message" \in DOMAIN chat.response.v
    /\ chat.response.v.message.t = "dict"
    /\ "content" \in DOMAIN chat.response.v.message.v
    /\ chat.response.v.message.v.content.t = "str"

\* C15 (as claimed): generate always returns, and returns a string; when
\* the text-generation call raised or its response is malformed, the string
\* is the apology naming the configured model.
C15_GenerateNeverFails ==
    call.op = "generate" =>
        /\ call.outcome = "returned"
        /\ call.value.t = "str"
        /\ ~well_formed(call.chat) =>
                \E e \in {"connection refused", "'message'", "'content'",
                           "object is not subscriptable"} :
                    call.value = PyStr(apology(e, model_name))

\* A step of the session in which a retrieval or a generation failed.
QueryFailed == cli'.event \in {"retrieve raised", "display raised"} /\ cli' # cli

\* A step in which the loop, once entered, ends.
LoopEnds == cli.entered /\ cli.pc # "exited" /\ cli'.pc = "exited"

\* C16 (as claimed): the loop is never entered after a probe error; it
\* prompts again after every failed retrieval or generation; it ends only
\* on a keyboard interrupt or when the input is "quit", "exit" or "q".
C16_SessionLifecycleExactInput ==
    /\ [](cli.probe_error => ~cli.entered)
    /\ [][QueryFailed => cli'.pc = "prompt"]_vars
    /\ [][LoopEnds => (cli'.event = "interrupt"
                            \/ cli'.last_input \in {"quit", "exit", "q"})]_vars

\* C16 (amended): the same, the input compared without regard to case: the
\* loop ends only on a keyboard interrupt or when the lower-cased input is
\* "quit", "exit" or "q".
C16_SessionLifecycle ==
    /\ [](cli.probe_error => ~cli.entered)
    /\ [](cli.probe_error => cli.pc = "exited")
    /\ [][QueryFailed => cli'.pc = "prompt"]_vars
    /\ [][LoopEnds => (cli'.event = "interrupt"
                            \/ (cli'.event = "quit"
                                /\ lower(cli'.last_input) \in {"quit", "exit", "q"}))]_vars

C16_Witness ==
    /\ cli.pc = "prompt"
    /\ cli.entered
    /\ cli.event = "display raised"
    /\ store # {}

\* C17: a call of insert_stock_data performs exactly one client operation,
\* an upsert (no read, no second attempt); when the upsert fails the call
\* raises and returns no id; when it succeeds the call returns the id.
C17_GatewayWriteDiscipline ==
    call.op = "insert_stock_data" =>
        /\ call.ops = <<"upsert">>
        /\ ~call.upsert_ok => (call.outcome = "raised" /\ call.value = None)
        /\ call.upsert_ok =>
                /\ call.outcome = "returned"
                /\ call.value = point_id(call.args.stock_id, call.args.date,
                                         call.args.data_type)

C17_Witness ==
    /\ call.op = "insert_stock_data"
    /\ call.outcome = "raised"
    /\ calls = 2
    /\ Cardinality(store) = 1

\* The field is absent from the mapping, None or zero.
ZeroOrMissing(fundamentals, k) == ~nonzero(get(fundamentals, k, PyNum(0)))

\* C18: every ratio calculate_ratios returns was computed with a strictly
\* positive divisor; with revenue zero or missing there is neither margin;
\* with eps zero, missing or not positive, or without a price, no pe_ratio.
C18_RatioGuard ==
    call.op = "calculate_ratios" =>
        LET fundamentals == call.args.fundamentals
            ratios == call.value
        IN  /\ call.outcome = "returned"
            /\ \A k \in DOMAIN ratios : ratios[k].divisor > 0
            /\ ZeroOrMissing(fundamentals, "revenue") =>
                    DOMAIN ratios \cap {"operating_margin", "net_margin"} = {}
            /\ (\/ ZeroOrMissing(fundamentals, "eps")
                \/ fundamentals.eps.n <= 0
                \/ call.args.price = PyNone) =>
                    "pe_ratio" \notin DOMAIN ratios

C18_Witness ==
    /\ call.op = "calculate_ratios"
    /\ "revenue" \in DOMAIN call.args.fundamentals
    /\ call.args.fundamentals.revenue = PyNum(0)
    /\ "eps" \in DOMAIN call.args.fundamentals
    /\ call.args.fundamentals.eps = PyNum(2)
    /\ call.args.price = PyNum(600)
    /\ DOMAIN call.value = {"pe_ratio"}

\* Every numeric field the mapping has is a number (none is None).
FieldsMissingOrNumbers(fundamentals) ==
    \A k \in DOMAIN fundamentals \cap NumericFields : fundamentals[k].t = "num"

HasLine(label) == \E i \in 1..Len(call.lines) : call.lines[i].label = label

EpsPositive(fundamentals) ==
    "eps" \in DOMAIN fundamentals /\ fundamentals.eps.t = "num" /\ fundamentals.eps.n > 0

\* C19 (as claimed): format_as_text raises for no mapping whose numeric
\* fields are numbers or missing; without eps the EPS line reads 0.00; the
\* P/E line is there exactly when a price is supplied and eps is positive.
C19_DefaultOnMissingAnyPrice ==
    (call.op = "format_as_text" /\ FieldsMissingOrNumbers(call.args.fundamentals)) =>
        /\ call.outcome = "returned"
        /\ "eps" \notin DOMAIN call.args.fundamentals =>
                \E i \in 1..Len(call.lines) : call.lines[i] = line("EPS", "0.00 NTD")
        /\ HasLine("P/E") <=>
                (call.args.price # PyNone /\ EpsPositive(call.args.fundamentals))

\* C19 (amended): the same, the P/E line being there exactly when a
\* non-zero price is supplied and eps is positive.
C19_DefaultOnMissing ==
    (call.op = "format_as_text" /\ FieldsMissingOrNumbers(call.args.fundamentals)) =>
        /\ call.outcome = "returned"
        /\ call.value # ""
        /\ "eps" \notin DOMAIN call.args.fundamentals =>
                \E i \in 1..Len(call.lines) : call.lines[i] = line("EPS", "0.00 NTD")
        /\ HasLine("P/E") <=>
                (nonzero(call.args.price) /\ EpsPositive(call.args.fundamentals))

C19_Witness ==
    /\ call.op = "format_as_text"
    /\ call.outcome = "returned"
    /\ DOMAIN call.args.fundamentals = {"revenue", "date"}
    /\ call.args.price = PyNum(600)
    /\ ~HasLine("P/E")
    /\ HasLine("EPS")

\* C20: when the price fetch of a stock yields no rows, the step that finds
\* it out takes the run straight to the next stock (or to the return after
\* the last one): no probe, write or fundamentals step for that stock, both
\* counters and the store as they were.
C20_EmptyPriceWindow ==
    [][\A r \in Runs :
        (/\ run[r].pc = "fetch"
         /\ provider_prices[stock_id(r)] = <<>>
         /\ run'[r] # run[r])
        => (/\ run'[r].pc \in {"fetch", "returned"}
            /\ run'[r].pc = "fetch" => run'[r].i = run[r].i + 1
            /\ run'[r].pc = "returned" => run[r].i = Len(stock_codes)
            /\ run'[r].total_inserted = run[r].total_inserted
            /\ run'[r].total_skipped = run[r].total_skipped
            /\ store' = store
            /\ writes' = writes)]_vars

C20_Witness ==
    /\ run[1].pc = "returned"
    /\ trace[1].initialised
    /\ trace[1].clean
    /\ trace[1].visited = stock_codes
    /\ \A k \in 1..Len(stock_codes) : provider_prices[stock_codes[k]] = <<>>
    /\ run[1].total_inserted = 0
    /\ run[1].total_skipped = 0
    /\ store # {}

\* A step in which the row a run was about to write failed: formatting, the
\* embedding or the upsert raised, so the write step is left and nothing
\* has been written.
RowFailed(r) == run[r].pc = "write" /\ run'[r] # run[r] /\ writes' = writes

\* C21: when formatting, embedding or upserting a technical row fails, both
\* counters and the store stay as they were and the run goes on, within the
\* same stock, with the next row, or with the fundamentals step after the
\* last row.  No step of the row loop, failed or not, leaves the stock or
\* passes over a row: a probe is followed by the write of its row or by the
\* next row's probe, a write by the next row's probe, the last row by the
\* fundamentals step.  And from a row's write step on, whatever fails, the
\* stock's fundamentals step is reached.
C21_RowFailureLocal ==
    /\ [][\A r \in Runs : RowFailed(r) =>
            /\ run'[r].total_inserted = run[r].total_inserted
            /\ run'[r].total_skipped = run[r].total_skipped
            /\ store' = store
            /\ run'[r].i = run[r].i
            /\ run'[r].df = run[r].df
            /\ IF run[r].j < Len(run[r].df)
               THEN run'[r].pc = "probe" /\ run'[r].j = run[r].j + 1
               ELSE run'[r].pc = "fund" /\ run'[r].j = run[r].j]_vars
    /\ [][\A r \in Runs : (run[r].pc \in {"probe", "write"} /\ run'[r] # run[r]) =>
            /\ run'[r].i = run[r].i
            /\ run'[r].df = run[r].df
            /\ \/ run[r].pc = "probe" /\ run'[r].pc = "write" /\ run'[r].j = run[r].j
               \/ run'[r].pc = "probe" /\ run'[r].j = run[r].j + 1
               \/ run'[r].pc = "fund" /\ run[r].j = Len(run[r].df)]_vars
    /\ \A k \in 1..Len(stock_codes) :
            (run[1].pc = "write" /\ run[1].i = k) ~> (run[1].pc = "fund" /\ run[1].i = k)

C21_Witness ==
    /\ run[1].pc = "fund"
    /\ Len(run[1].df) = 2
    /\ run[1].j = 2
    /\ run[1].total_inserted = 1
    /\ run[1].total_skipped = 0
    /\ <<stock_id(1), run[1].df[1], "technical">> \notin DOMAIN writes
    /\ <<stock_id(1), run[1].df[2], "technical">> \in DOMAIN writes

\* C22: in runs in which no external call fails, one writer at a time, the
\* store holds as many records as it held before the first run plus what
\* the runs have inserted so far; so at a run's return it has grown by
\* exactly the inserted total the run returns, whatever the store held and
\* whatever rows the provider has.
C22_StoreGrowthEqualsInserted ==
    (\A r \in Runs : run[r].pc # "exited") =>
        Cardinality(store) =
            Cardinality(PreloadedTriples) + run[1].total_inserted + run[2].total_inserted

C22_Witness ==
    /\ run[1].pc = "returned"
    /\ run[1].total_inserted = 2
    /\ run[1].total_skipped = 2
    /\ Cardinality(PreloadedTriples) = 2
    /\ Cardinality(store) = 4

\* The store holds a record under the fingerprint id of the triple.
HeldUnderId(points, sid, dt, data_type) ==
    \E p \in points : p.id = point_id(sid, dt, data_type)

\* C23 (as claimed): after any sequence of insert_stock_data calls, a probe
\* whose search does not fail answers true if and only if the store holds a
\* record under the fingerprint id of the probed triple.
C23_ProbeKeyAgreement ==
    [][(call'.op = "check_data_exists" /\ call'.search_ok) =>
            (call'.value <=> HeldUnderId(store', call'.args.stock_id, call'.args.date,
                                         call'.args.data_type))]_vars

\* C24: at every point of a run, inserted is the number of
\* insert_stock_data calls that have returned, skipped is the number of
\* probes that reported a match, and inserted + skipped is at most the
\* number of observations probed; an observation adds to at most one
\* counter: the step that probes it adds at most one to skipped and, when
\* it does, the row is done without a write; the step that writes it adds
\* at most one to inserted and the row is done; no other step of the run
\* changes a counter.
C24_CounterAccounting ==
    /\ [](\A r \in Runs : run[r].pc # "exited" =>
            /\ run[r].total_inserted = trace[r].inserts
            /\ run[r].total_skipped = trace[r].matches
            /\ run[r].total_inserted + run[r].total_skipped <= trace[r].probes)
    /\ [][\A r \in Runs : run'[r].pc # "exited" =>
            /\ run[r].pc = "probe" =>
                    /\ run'[r].total_inserted = run[r].total_inserted
                    /\ run'[r].total_skipped \in {run[r].total_skipped,
                                                 run[r].total_skipped + 1}
                    /\ run'[r].total_skipped # run[r].total_skipped =>
                            /\ run'[r].pc \in {"probe", "fund"}
                            /\ run'[r].pc = "probe" => run'[r].j = run[r].j + 1
            /\ run[r].pc = "write" =>
                    /\ run'[r].total_skipped = run[r].total_skipped
                    /\ run'[r].total_inserted \in {run[r].total_inserted,
                                                  run[r].total_inserted + 1}
                    /\ run'[r] # run[r] =>
                            /\ run'[r].pc \in {"probe", "fund"}
                            /\ run'[r].pc = "probe" => run'[r].j = run[r].j + 1
            /\ run[r].pc \notin {"probe", "write"} =>
                    /\ run'[r].total_inserted = run[r].total_inserted
                    /\ run'[r].total_skipped = run[r].total_skipped]_vars

C24_Witness ==
    /\ run[1].pc = "returned"
    /\ trace[1].probes = 4
    /\ trace[1].matches = 1
    /\ trace[1].inserts = 2
    /\ run[1].total_inserted = 2
    /\ run[1].total_skipped = 1

\* The technical triples of the rows the loader selects.
SelectedRows ==
    UNION {{<<stock_codes[k], tail(provider_prices[stock_codes[k]], tail_rows)[n], "technical">> :
                n \in 1..Len(tail(provider_prices[stock_codes[k]], tail_rows))} :
            k \in 1..Len(stock_codes)}

\* The step leaves the stored triples and the record count as they are.
SameTriplesAndCount ==
    /\ {Triple(p) : p \in store'} = {Triple(p) : p \in store}
    /\ Cardinality(store') = Cardinality(store)

\* The first run of the loader went through all the stocks and returned.
FirstLoadReturned == run[1].pc = "loaded"

====
